---- MODULE Spec2Model ----
(***************************************************************************)
(* State-machine model of the weaviate-cli data commands                   *)
(* (src/semi/data/commands.py): the import pipeline (DataFileImporter,     *)
(* ValidateAndSplitData, dissect_schema, dissect_reference), the bulk      *)
(* delete (delete_all_data, _delete_all) and the schema index derivation.  *)
(*                                                                         *)
(* The batcher returned by client.batch(batch_size=512, callback=...) is   *)
(* the weaviate Python client's fixed-size batcher: it keeps one pending   *)
(* list of objects and one of references, and after every add it sends     *)
(* both lists (objects first, each non-empty list as one request of its    *)
(* own) as soon as the two lists together hold batch_size entries.  The    *)
(* callback runs on the results of each request before the next request.   *)
(***************************************************************************)
EXTENDS Integers, Sequences, FiniteSets, TLC

(***************************************************************************)
(* Bounds of the explored inputs.                                          *)
(***************************************************************************)
\* batch_size handed to client.batch (512 in the source), scaled down
BatchSize == 2
\* number of raw objects in the input document
MaxObjs == 2
\* number of reference descriptors in the input document
MaxRefs == 2
\* number of classes, and of properties per class, in a schema document
\* handed to dissect_schema
MaxSchemaClasses == 1
MaxSchemaProps == 2
\* number of characters of a beacon handed to dissect_reference
MaxBeaconLen == 3
\* number of data objects held by the remote service before a bulk delete
MaxRemoteObjects == 2
\* number of objects of the exported class, and the page size of an export
MaxExportObjects == 4
MaxExportBatch == 3

None == "None"
EmptyDict == [x \in {} |-> None]

RECURSIVE SeqsUpTo(_, _)
\* all sequences over S of length at most n
SeqsUpTo(S, n) ==
    IF n = 0 THEN {<<>>}
    ELSE LET shorter == SeqsUpTo(S, n - 1)
         IN shorter \cup {Append(s, x) : s \in {t \in shorter : Len(t) = n - 1}, x \in S}

RECURSIVE Flatten(_)
\* concatenation of a sequence of sequences
Flatten(ss) == IF ss = <<>> THEN <<>> ELSE Head(ss) \o Flatten(Tail(ss))

\* number of positions of sequence s holding x
Count(s, x) == Cardinality({i \in DOMAIN s : s[i] = x})

\* the set of members of sequence s
Range(s) == {s[i] : i \in DOMAIN s}

(***************************************************************************)
(* Strings that the code takes apart are sequences of tokens; "/" is the   *)
(* separator token of str.split('/').                                      *)
(***************************************************************************)
RECURSIVE split(_, _)
\* str.split(sep): the list of the maximal sep-free pieces, empty ones included
split(str, sep) ==
    IF \A i \in DOMAIN str : str[i] # sep THEN <<str>>
    ELSE LET k == CHOOSE i \in DOMAIN str :
                      str[i] = sep /\ \A j \in 1..(i - 1) : str[j] # sep
         IN <<SubSeq(str, 1, k - 1)>> \o split(SubSeq(str, k + 1, Len(str)), sep)

(***************************************************************************)
(* Schema index: dissect_schema, _get_schema_properties, is_primitive_prop *)
(***************************************************************************)
PrimitiveTypes ==
    {"text", "string", "int", "boolean", "number", "date", "geoCoordinates", "phoneNumber"}

\* variant: 'text' is missing from the list of primitive types
IsPrimitivePropWithoutText(data_type) == data_type \in PrimitiveTypes \ {"text"}

is_primitive_prop(data_type) == data_type \in PrimitiveTypes

\* the names of a list of property descriptors, in order
PropertyNames(props) == [i \in DOMAIN props |-> props[i].name]

_get_schema_properties(properties) ==
    [primitive |-> PropertyNames(SelectSeq(properties,
                       LAMBDA p : is_primitive_prop(p.dataType[1]))),
     ref       |-> PropertyNames(SelectSeq(properties,
                       LAMBDA p : ~is_primitive_prop(p.dataType[1])))]

\* schema.get('classes', [])
SchemaClasses(schemaDoc) ==
    IF "classes" \in DOMAIN schemaDoc THEN schemaDoc.classes ELSE <<>>

\* a dict keyed by class name: a later class of the same name overwrites
dissect_schema(schemaDoc) ==
    LET cls == SchemaClasses(schemaDoc)
        last(n) == CHOOSE i \in DOMAIN cls :
                       cls[i].class = n /\ \A j \in DOMAIN cls : j > i => cls[j].class # n
    IN [n \in {cls[i].class : i \in DOMAIN cls} |->
            _get_schema_properties(cls[last(n)].properties)]

(***************************************************************************)
(* Validation: dissect_reference and the body of _validate_obj             *)
(***************************************************************************)
\* ref.get('beacon', 'e')
BeaconOf(ref) == IF "beacon" \in DOMAIN ref THEN ref.beacon ELSE <<"e">>

\* variant: only the first descriptor of a property is dissected
DissectFirstReferenceOnly(refs, from_class, from_id, from_prop) ==
    [i \in DOMAIN refs \cap {1} |->
        LET beacon_split == split(BeaconOf(refs[i]), "/")
        IN [from_object_uuid       |-> from_id,
            from_object_class_name |-> from_class,
            from_property_name     |-> from_prop,
            to_object_uuid         |-> beacon_split[Len(beacon_split)]]]

\* variant: the target is the first segment of the beacon
DissectFirstSegment(refs, from_class, from_id, from_prop) ==
    [i \in DOMAIN refs |->
        LET beacon_split == split(BeaconOf(refs[i]), "/")
        IN [from_object_uuid       |-> from_id,
            from_object_class_name |-> from_class,
            from_property_name     |-> from_prop,
            to_object_uuid         |-> beacon_split[1]]]

dissect_reference(refs, from_class, from_id, from_prop) ==
    [i \in DOMAIN refs |->
        LET beacon_split == split(BeaconOf(refs[i]), "/")
        IN [from_object_uuid       |-> from_id,
            from_object_class_name |-> from_class,
            from_property_name     |-> from_prop,
            to_object_uuid         |-> beacon_split[Len(beacon_split)]]]

RECURSIVE SplitPropertiesLenient(_, _, _, _)
\* variant: a property in neither list is skipped instead of failing
SplitPropertiesLenient(obj, schema_definition, i, acc) ==
    IF i > Len(obj.properties) THEN acc
    ELSE LET name == obj.properties[i].name
             val  == obj.properties[i].val
         IN IF \E k \in DOMAIN schema_definition.primitive :
                   schema_definition.primitive[k] = name
            THEN SplitPropertiesLenient(obj, schema_definition, i + 1,
                     [acc EXCEPT !.data_object = (name :> val) @@ @])
            ELSE IF \E k \in DOMAIN schema_definition.ref :
                        schema_definition.ref[k] = name
            THEN SplitPropertiesLenient(obj, schema_definition, i + 1,
                     [acc EXCEPT !.refs = @ \o dissect_reference(val, obj.class, obj.id, name)])
            ELSE SplitPropertiesLenient(obj, schema_definition, i + 1, acc)

RECURSIVE SplitProperties(_, _, _, _)
\* the property loop of _validate_obj from position i on: the primitive
\* entries copied, the reference records appended, and whether the loop
\* stopped at a property that is in neither list
SplitProperties(obj, schema_definition, i, acc) ==
    IF i > Len(obj.properties) THEN acc
    ELSE LET name == obj.properties[i].name
             val  == obj.properties[i].val
         IN IF \E k \in DOMAIN schema_definition.primitive :
                   schema_definition.primitive[k] = name
            THEN SplitProperties(obj, schema_definition, i + 1,
                     [acc EXCEPT !.data_object = (name :> val) @@ @])
            ELSE IF \E k \in DOMAIN schema_definition.ref :
                        schema_definition.ref[k] = name
            THEN SplitProperties(obj, schema_definition, i + 1,
                     [acc EXCEPT !.refs = @ \o dissect_reference(val, obj.class, obj.id, name)])
            ELSE [acc EXCEPT !.failed = TRUE]

\* import_object_parameter as appended to data_objects
ImportObjectParameter(obj, data_object) ==
    LET base == [class_name |-> obj.class, uuid |-> obj.id, data_object |-> data_object]
    IN IF obj.vector # None THEN base @@ [vector |-> obj.vector] ELSE base

\* variant: the check that the class exists is missing, and an object of an
\* unknown class is taken as one without schema properties
ValidateObjWithoutClassCheck(obj, sch) ==
    LET definition == IF obj.class \in DOMAIN sch THEN sch[obj.class]
                      ELSE [primitive |-> <<>>, ref |-> <<>>]
        r == SplitPropertiesLenient(obj, definition, 1,
                 [data_object |-> EmptyDict, refs |-> <<>>, failed |-> FALSE])
    IN [failed |-> FALSE, refs |-> r.refs,
        object |-> ImportObjectParameter(obj, r.data_object)]

\* _validate_obj on one raw object against the dissected schema: whether
\* _exit_validation_failed was reached, the reference records added to
\* data_references before that, and the record appended to data_objects
_validate_obj(obj, sch) ==
    IF obj.class \notin DOMAIN sch
    THEN [failed |-> TRUE, refs |-> <<>>, object |-> None]
    ELSE LET r == SplitProperties(obj, sch[obj.class], 1,
                      [data_object |-> EmptyDict, refs |-> <<>>, failed |-> FALSE])
         IN [failed |-> r.failed, refs |-> r.refs,
             object |-> IF r.failed THEN None
                        ELSE ImportObjectParameter(obj, r.data_object)]

(***************************************************************************)
(* The batcher: client.batch(batch_size=512, callback=self._exit_on_error) *)
(***************************************************************************)
\* entry.get('result', {})
ResultOf(entry) == IF "result" \in DOMAIN entry THEN entry.result ELSE EmptyDict

\* result.get('errors')
ErrorOf(result) == IF "errors" \in DOMAIN result THEN result.errors ELSE None

RECURSIVE ExitOnErrorFrom(_, _, _)
\* the loop of _exit_on_error from entry i on: the errors printed, in order,
\* and whether sys.exit(1) was reached
ExitOnErrorFrom(batch_results, i, foe) ==
    IF i > Len(batch_results) THEN [printed |-> <<>>, exit |-> FALSE]
    ELSE LET error == ErrorOf(ResultOf(batch_results[i]))
             rest  == ExitOnErrorFrom(batch_results, i + 1, foe)
         IN IF error # None
            THEN IF foe THEN [printed |-> <<error>>, exit |-> TRUE]
                 ELSE [printed |-> <<error>> \o rest.printed, exit |-> rest.exit]
            ELSE rest

\* variant: the exit is taken after the loop over the entries
ExitOnErrorAfterLoop(batch_results, foe) ==
    LET all == ExitOnErrorFrom(batch_results, 1, FALSE)
    IN [printed |-> all.printed, exit |-> foe /\ all.printed # <<>>]

\* variant: the callback prints and never exits
ExitOnErrorNeverExits(batch_results, foe) == ExitOnErrorFrom(batch_results, 1, FALSE)

\* variant: the callback exits on the first error whatever fail_on_error is
ExitOnErrorAlwaysExits(batch_results, foe) == ExitOnErrorFrom(batch_results, 1, TRUE)

_exit_on_error(batch_results, foe) == ExitOnErrorFrom(batch_results, 1, foe)

\* one request to the write service with the callback run on its results;
\* an empty pending list sends nothing
SubmitBatch(kind, batch, results, foe) ==
    IF Len(batch) = 0 THEN [subs |-> <<>>, printed |-> <<>>, exit |-> FALSE]
    ELSE LET cb == _exit_on_error(results, foe)
         IN [subs    |-> <<[kind |-> kind, batch |-> batch, results |-> results]>>,
             printed |-> cb.printed,
             exit    |-> cb.exit]

\* variant: a send that forgets the pending references
SendBatchRequestsDropsReferences(ob, rb, ro, rr, foe) ==
    LET o == SubmitBatch("objects", ob, ro, foe)
    IN [subs |-> o.subs, printed |-> o.printed, exit |-> o.exit,
        objects_batch |-> <<>>, reference_batch |-> <<>>]

\* variant: a send puts the pending records of both kinds in one request
SendBatchRequestsMixed(ob, rb, ro, rr, foe) ==
    LET o == SubmitBatch("objects", ob \o rb, ro \o rr, foe)
    IN [subs |-> o.subs, printed |-> o.printed, exit |-> o.exit,
        objects_batch |-> <<>>, reference_batch |-> <<>>]

\* the batcher sends its pending objects, then its pending references; an
\* exit in the callback of the objects request ends the process before the
\* references request
SendBatchRequests(ob, rb, ro, rr, foe) ==
    LET o == SubmitBatch("objects", ob, ro, foe)
        r == SubmitBatch("references", rb, rr, foe)
    IN IF o.exit
       THEN [subs |-> o.subs, printed |-> o.printed, exit |-> TRUE,
             objects_batch |-> <<>>, reference_batch |-> rb]
       ELSE [subs |-> o.subs \o r.subs, printed |-> o.printed \o r.printed,
             exit |-> r.exit, objects_batch |-> <<>>, reference_batch |-> <<>>]

\* variant: the threshold is compared with > instead of >=
AutoCreateOffByOne(ob, rb, ro, rr, foe) ==
    IF Len(ob) + Len(rb) > BatchSize
    THEN SendBatchRequests(ob, rb, ro, rr, foe)
    ELSE [subs |-> <<>>, printed |-> <<>>, exit |-> FALSE,
          objects_batch |-> ob, reference_batch |-> rb]

\* after every add: send once the pending entries of both kinds reach batch_size
AutoCreate(ob, rb, ro, rr, foe) ==
    IF Len(ob) + Len(rb) >= BatchSize
    THEN SendBatchRequests(ob, rb, ro, rr, foe)
    ELSE [subs |-> <<>>, printed |-> <<>>, exit |-> FALSE,
          objects_batch |-> ob, reference_batch |-> rb]

(***************************************************************************)
(* Explored inputs of an import run                                        *)
(***************************************************************************)
\* "weaviate://localhost/Doc/y1" and a beacon without separator
Beacon1 == <<"weaviate:", "/", "/", "localhost", "/", "Doc", "/", "y1">>
Beacon2 == <<"y2">>

\* the list of the first k reference descriptors of a property
RefList(k) ==
    [i \in 1..k |-> IF i % 2 = 1 THEN [beacon |-> Beacon1] ELSE [beacon |-> Beacon2]]

RefLists == {RefList(k) : k \in 0..MaxRefs}

\* property mappings of a raw object, in file order: "title" carries a
\* primitive value and "refs" a list of reference descriptors
PropertyLists ==
    {<<>>, <<[name |-> "title", val |-> "hi"]>>}
    \cup {<<[name |-> "refs", val |-> l]>> : l \in RefLists}
    \cup {<<[name |-> "title", val |-> "hi"], [name |-> "refs", val |-> l]>> : l \in RefLists}
    \cup {<<[name |-> "refs", val |-> l], [name |-> "title", val |-> "hi"]>> : l \in RefLists}

\* raw objects: of class Doc with any of the property mappings, of class Doc
\* with a custom vector, of class Tag (in no explored schema) without
\* properties or with both, of class Doc with two reference properties
RawObjects ==
    [class : {"Doc"}, id : {"x1"}, vector : {None}, properties : PropertyLists]
    \cup [class : {"Doc"}, id : {"x3"}, vector : {<<1, 2>>},
          properties : {<<[name |-> "title", val |-> "hi"]>>}]
    \cup [class : {"Tag"}, id : {"x2"}, vector : {None},
          properties : {<<>>, <<[name |-> "title", val |-> "hi"],
                                [name |-> "refs", val |-> RefList(1)]>>}]
    \cup [class : {"Doc"}, id : {"x4"}, vector : {None},
          properties : {<<[name |-> "links", val |-> <<[beacon |-> Beacon2]>>]>>,
                        <<[name |-> "links", val |-> <<[beacon |-> Beacon2]>>],
                          [name |-> "refs", val |-> RefList(1)]>>}]

RECURSIVE PropDescriptorCount(_)
\* number of reference descriptors in the property mappings of a raw object
PropDescriptorCount(props) ==
    IF props = <<>> THEN 0
    ELSE (IF Head(props).name = "title" THEN 0 ELSE Len(Head(props).val))
         + PropDescriptorCount(Tail(props))

RECURSIVE DescriptorCount(_)
\* number of reference descriptors in a list of raw objects
DescriptorCount(os) ==
    IF os = <<>> THEN 0
    ELSE PropDescriptorCount(Head(os).properties) + DescriptorCount(Tail(os))

\* parsed input documents: with a "classes" list, or without the key
Documents ==
    {[classes |-> os] : os \in {l \in SeqsUpTo(RawObjects, MaxObjs) :
                                    DescriptorCount(l) <= MaxRefs}}
    \cup {EmptyDict}

\* remote schema documents of an import run
ImportSchemas ==
    {[classes |-> <<[class |-> "Doc", properties |-> ps]>>] : ps \in
        {<<[name |-> "title", dataType |-> <<"text">>],
           [name |-> "refs", dataType |-> <<"Doc">>]>>,
         <<[name |-> "title", dataType |-> <<"text">>]>>,
         <<[name |-> "refs", dataType |-> <<"Doc">>]>>,
         <<[name |-> "refs", dataType |-> <<"Doc">>],
           [name |-> "links", dataType |-> <<"Doc">>]>>}}

\* error messages of the write service, by the position of the record in
\* its request
ErrorNames == <<"E1", "E2", "E3", "E4">>

\* what the write service may answer for the record at position i of a
\* request: an entry with an error, or one without: the errors field absent,
\* null, or the whole result absent, by position
Entries(i) ==
    {[result |-> [errors |-> ErrorNames[i]]],
     IF i % 3 = 1 THEN [result |-> [status |-> "SUCCESS"]]
     ELSE IF i % 3 = 2 THEN [result |-> [errors |-> None, status |-> "SUCCESS"]]
     ELSE [id |-> "x"]}

ResultsFor(batch) ==
    {f \in [DOMAIN batch -> UNION {Entries(i) : i \in DOMAIN batch}] :
        \A i \in DOMAIN batch : f[i] \in Entries(i)}

(***************************************************************************)
(* State                                                                   *)
(***************************************************************************)
VARIABLES
    pc,               \* position of the running command
    exitStatus,       \* process exit status, None while running
    fail_on_error,    \* DataFileImporter.fail_on_error
    data,             \* DataFileImporter.data, the parsed input document
    remoteSchema,     \* schema held by the remote service
    schema,           \* ValidateAndSplitData.schema
    data_objects,     \* ValidateAndSplitData.data_objects
    data_references,  \* ValidateAndSplitData.data_references
    vi,               \* position of the loop of validate_and_split
    oi,               \* position of the loop over vasd.data_objects in load
    ri,               \* position of the loop over vasd.data_references in load
    objects_batch,    \* pending objects of the batcher
    reference_batch,  \* pending references of the batcher
    submitted,        \* requests received by the write service, in order
    printed,          \* errors printed by _exit_on_error, in order
    calls,            \* calls received by the schema service, in order
    remoteObjects,    \* number of data objects held by the remote service
    remote0,          \* remote schema and data objects when the command started
    force,            \* the --force flag of data delete
    answer,           \* "yes" or "no" from is_question_answer_yes, None while not asked
    snapshot,         \* the local variable schema of _delete_all
    raised,           \* the schema service call whose exception ended the run, or None
    batch_size,       \* export_class: the page size
    include_vectors,  \* export_class: whether vectors are exported
    entities,         \* the objects of the exported class, in the service's order
    class_properties, \* export_class: the property names of the class
    cursor,           \* export_class: id of the last object seen, None at first
    results,          \* export_class: the formatted objects collected so far
    queries           \* the page requests issued so far, each by its cursor

vars == <<pc, exitStatus, fail_on_error, data, remoteSchema, schema, data_objects,
          data_references, vi, oi, ri, objects_batch, reference_batch, submitted,
          printed, calls, remoteObjects, remote0, force, answer, snapshot, raised,
          batch_size, include_vectors, entities, class_properties, cursor, results,
          queries>>

exportVars == <<batch_size, include_vectors, entities, class_properties, cursor, results,
                queries>>

\* no export is running
NoExport ==
    /\ batch_size = 1
    /\ include_vectors = FALSE
    /\ entities = <<>>
    /\ class_properties = <<>>
    /\ cursor = None
    /\ results = <<>>
    /\ queries = <<>>

\* self.data.get("classes", [])
DocClasses(d) == IF "classes" \in DOMAIN d THEN d.classes ELSE <<>>

Init ==
    /\ pc = "load"
    /\ exitStatus = None
    /\ fail_on_error \in BOOLEAN
    /\ data \in Documents
    /\ remoteSchema \in ImportSchemas
    /\ schema = None
    /\ data_objects = <<>>
    /\ data_references = <<>>
    /\ vi = 1
    /\ oi = 1
    /\ ri = 1
    /\ objects_batch = <<>>
    /\ reference_batch = <<>>
    /\ submitted = <<>>
    /\ printed = <<>>
    /\ calls = <<>>
    /\ remoteObjects = 0
    /\ remote0 = <<remoteSchema, remoteObjects>>
    /\ force = FALSE
    /\ answer = None
    /\ snapshot = None
    /\ raised = None
    /\ NoExport

\* load: client.schema.get() and the construction of ValidateAndSplitData
FetchSchema ==
    /\ pc = "load"
    /\ calls' = Append(calls, "get")
    /\ schema' = dissect_schema(remoteSchema)
    /\ data_objects' = <<>>
    /\ data_references' = <<>>
    /\ pc' = "validate"
    /\ UNCHANGED <<exitStatus, fail_on_error, data, remoteSchema, vi, oi, ri,
                   objects_batch, reference_batch, submitted, printed,
                   remoteObjects, remote0, force, answer, snapshot, raised,
                   exportVars>>

\* variant: the properties of a validated object are removed from the
\* schema definition of its class
ValidateObjConsumesSchema ==
    /\ pc = "validate"
    /\ vi <= Len(DocClasses(data))
    /\ LET obj == DocClasses(data)[vi]
           r   == _validate_obj(obj, schema)
       IN /\ data_references' = data_references \o r.refs
          /\ schema' = IF obj.class \in DOMAIN schema
                       THEN [schema EXCEPT ![obj.class] = [primitive |-> <<>>, ref |-> <<>>]]
                       ELSE schema
          /\ IF r.failed
             THEN /\ pc' = "exited"
                  /\ exitStatus' = 1
                  /\ UNCHANGED <<data_objects, vi>>
             ELSE /\ data_objects' = Append(data_objects, r.object)
                  /\ vi' = vi + 1
                  /\ UNCHANGED <<pc, exitStatus>>
    /\ UNCHANGED <<fail_on_error, data, remoteSchema, oi, ri, objects_batch,
                   reference_batch, submitted, printed, calls, remoteObjects, remote0,
                   force, answer, snapshot, raised,
                   exportVars>>

\* variant: the reference records of an object are put in front of the
\* records of the objects before it
ValidateObjPrepends ==
    /\ pc = "validate"
    /\ vi <= Len(DocClasses(data))
    /\ LET r == _validate_obj(DocClasses(data)[vi], schema)
       IN /\ data_references' = r.refs \o data_references
          /\ IF r.failed
             THEN /\ pc' = "exited"
                  /\ exitStatus' = 1
                  /\ UNCHANGED <<data_objects, vi>>
             ELSE /\ data_objects' = Append(data_objects, r.object)
                  /\ vi' = vi + 1
                  /\ UNCHANGED <<pc, exitStatus>>
    /\ UNCHANGED <<fail_on_error, data, remoteSchema, schema, oi, ri, objects_batch,
                   reference_batch, submitted, printed, calls, remoteObjects, remote0,
                   force, answer, snapshot, raised,
                   exportVars>>

\* one pass of the loop of validate_and_split: _validate_obj on the next
\* object; _exit_validation_failed ends the process with status 1
ValidateObj ==
    /\ pc = "validate"
    /\ vi <= Len(DocClasses(data))
    /\ LET r == _validate_obj(DocClasses(data)[vi], schema)
       IN /\ data_references' = data_references \o r.refs
          /\ IF r.failed
             THEN /\ pc' = "exited"
                  /\ exitStatus' = 1
                  /\ UNCHANGED <<data_objects, vi>>
             ELSE /\ data_objects' = Append(data_objects, r.object)
                  /\ vi' = vi + 1
                  /\ UNCHANGED <<pc, exitStatus>>
    /\ UNCHANGED <<fail_on_error, data, remoteSchema, schema, oi, ri, objects_batch,
                   reference_batch, submitted, printed, calls, remoteObjects, remote0,
                   force, answer, snapshot, raised,
                   exportVars>>

\* variant: the upload starts while objects are still waiting for validation
StartImportEarly ==
    /\ pc = "validate"
    /\ vi > 1
    /\ pc' = "import"
    /\ UNCHANGED <<exitStatus, fail_on_error, data, remoteSchema, schema, data_objects,
                   data_references, vi, oi, ri, objects_batch, reference_batch,
                   submitted, printed, calls, remoteObjects, remote0, force, answer,
                   snapshot, raised,
                   exportVars>>

\* validate_and_split returns: load goes on to the upload loops
StartImport ==
    /\ pc = "validate"
    /\ vi > Len(DocClasses(data))
    /\ pc' = "import"
    /\ UNCHANGED <<exitStatus, fail_on_error, data, remoteSchema, schema, data_objects,
                   data_references, vi, oi, ri, objects_batch, reference_batch,
                   submitted, printed, calls, remoteObjects, remote0, force, answer,
                   snapshot, raised,
                   exportVars>>

\* the effect of a batcher call on the importer
BatcherStep(out, endsRun) ==
    /\ submitted' = submitted \o out.subs
    /\ printed' = printed \o out.printed
    /\ objects_batch' = out.objects_batch
    /\ reference_batch' = out.reference_batch
    /\ IF out.exit THEN pc' = "exited" /\ exitStatus' = 1
       ELSE IF endsRun THEN pc' = "done" /\ exitStatus' = 0
       ELSE UNCHANGED <<pc, exitStatus>>

\* self.batcher.add_data_object(**obj)
AddDataObject ==
    /\ pc = "import"
    /\ oi <= Len(data_objects)
    /\ LET ob == Append(objects_batch, data_objects[oi])
       IN \E ro \in ResultsFor(ob), rr \in ResultsFor(reference_batch) :
              BatcherStep(AutoCreate(ob, reference_batch, ro, rr, fail_on_error), FALSE)
    /\ oi' = oi + 1
    /\ UNCHANGED <<fail_on_error, data, remoteSchema, schema, data_objects,
                   data_references, vi, ri, calls, remoteObjects, remote0, force,
                   answer, snapshot, raised,
                   exportVars>>

\* variant: references are added without waiting for the objects
AddReferenceEarly ==
    /\ pc = "import"
    /\ ri <= Len(data_references)
    /\ LET rb == Append(reference_batch, data_references[ri])
       IN \E ro \in ResultsFor(objects_batch), rr \in ResultsFor(rb) :
              BatcherStep(AutoCreate(objects_batch, rb, ro, rr, fail_on_error), FALSE)
    /\ ri' = ri + 1
    /\ UNCHANGED <<fail_on_error, data, remoteSchema, schema, data_objects,
                   data_references, vi, oi, calls, remoteObjects, remote0, force,
                   answer, snapshot, raised,
                   exportVars>>

\* self.batcher.add_reference(**ref)
AddReference ==
    /\ pc = "import"
    /\ oi > Len(data_objects)
    /\ ri <= Len(data_references)
    /\ LET rb == Append(reference_batch, data_references[ri])
       IN \E ro \in ResultsFor(objects_batch), rr \in ResultsFor(rb) :
              BatcherStep(AutoCreate(objects_batch, rb, ro, rr, fail_on_error), FALSE)
    /\ ri' = ri + 1
    /\ UNCHANGED <<fail_on_error, data, remoteSchema, schema, data_objects,
                   data_references, vi, oi, calls, remoteObjects, remote0, force,
                   answer, snapshot, raised,
                   exportVars>>

\* self.batcher.flush(), after which load returns and the process ends
Flush ==
    /\ pc = "import"
    /\ oi > Len(data_objects)
    /\ ri > Len(data_references)
    /\ \E ro \in ResultsFor(objects_batch), rr \in ResultsFor(reference_batch) :
           BatcherStep(SendBatchRequests(objects_batch, reference_batch, ro, rr,
                                         fail_on_error), TRUE)
    /\ UNCHANGED <<fail_on_error, data, remoteSchema, schema, data_objects,
                   data_references, vi, oi, ri, calls, remoteObjects, remote0,
                   force, answer, snapshot, raised,
                   exportVars>>

Next == FetchSchema \/ ValidateObj \/ StartImport \/ AddDataObject \/ AddReference \/ Flush

\* an import run: import_data_from_file
Spec == Init /\ [][Next]_vars

(***************************************************************************)
(* Schema index derivation over all explored schema documents              *)
(***************************************************************************)
DataTypes == {<<"text">>, <<"Doc", "Tag">>}

PropertyDescriptors == [name : {"title", "refs"}, dataType : DataTypes]

ClassDescriptors ==
    [class : {"Doc", "Tag", "Page"},
     properties : SeqsUpTo(PropertyDescriptors, MaxSchemaProps)]

\* schema documents: with a "classes" list, or without the key
SchemaDocuments ==
    {[classes |-> cs] : cs \in SeqsUpTo(ClassDescriptors, MaxSchemaClasses)} \cup {EmptyDict}

InitSchema ==
    /\ pc = "load"
    /\ exitStatus = None
    /\ fail_on_error = FALSE
    /\ data = EmptyDict
    /\ remoteSchema \in SchemaDocuments
    /\ schema = None
    /\ data_objects = <<>>
    /\ data_references = <<>>
    /\ vi = 1
    /\ oi = 1
    /\ ri = 1
    /\ objects_batch = <<>>
    /\ reference_batch = <<>>
    /\ submitted = <<>>
    /\ printed = <<>>
    /\ calls = <<>>
    /\ remoteObjects = 0
    /\ remote0 = <<remoteSchema, remoteObjects>>
    /\ force = FALSE
    /\ answer = None
    /\ snapshot = None
    /\ raised = None
    /\ NoExport

NextSchema == FetchSchema

\* the construction of the schema index from any schema document
SpecSchema == InitSchema /\ [][NextSchema]_vars

(***************************************************************************)
(* dissect_reference over all short beacons                                *)
(***************************************************************************)
\* beacon strings: every string of up to MaxBeaconLen characters over a
\* letter and the separator, and the two beacons of the import runs
BeaconStrings == SeqsUpTo({"a", "/"}, MaxBeaconLen) \cup {Beacon1, Beacon2}

\* reference descriptors: with a beacon, or without the key
Descriptors == {[beacon |-> b] : b \in BeaconStrings} \cup {[href |-> <<"h">>]}

\* the schema with the one reference property refs of class Doc
RefsSchema ==
    [classes |-> <<[class |-> "Doc",
                    properties |-> <<[name |-> "refs", dataType |-> <<"Doc">>]>>]>>]

InitDissect ==
    /\ pc = "load"
    /\ exitStatus = None
    /\ fail_on_error = FALSE
    /\ \E l \in SeqsUpTo(Descriptors, MaxRefs) :
           data = [classes |-> <<[class |-> "Doc", id |-> "x1", vector |-> None,
                                  properties |-> <<[name |-> "refs", val |-> l]>>]>>]
    /\ remoteSchema = RefsSchema
    /\ schema = None
    /\ data_objects = <<>>
    /\ data_references = <<>>
    /\ vi = 1
    /\ oi = 1
    /\ ri = 1
    /\ objects_batch = <<>>
    /\ reference_batch = <<>>
    /\ submitted = <<>>
    /\ printed = <<>>
    /\ calls = <<>>
    /\ remoteObjects = 0
    /\ remote0 = <<remoteSchema, remoteObjects>>
    /\ force = FALSE
    /\ answer = None
    /\ snapshot = None
    /\ raised = None
    /\ NoExport

NextDissect == FetchSchema \/ ValidateObj

\* validate_and_split on one object with one list of reference descriptors
SpecDissect == InitDissect /\ [][NextDissect]_vars

(***************************************************************************)
(* Bulk delete: data_empty, delete_all_data, _delete_all                   *)
(***************************************************************************)
\* remote schemas before a bulk delete
DeleteSchemas ==
    {[classes |-> cs] : cs \in
        {<<>>,
         <<[class |-> "Doc", properties |-> <<[name |-> "title", dataType |-> <<"text">>]>>]>>,
         <<[class |-> "Doc", properties |-> <<[name |-> "title", dataType |-> <<"text">>]>>],
           [class |-> "Tag", properties |-> <<[name |-> "refs", dataType |-> <<"Doc">>]>>]>>}}

\* the schema service after delete_all
EmptySchema == [classes |-> <<>>]

InitDelete ==
    /\ pc = "delete_all_data"
    /\ exitStatus = None
    /\ force \in BOOLEAN
    /\ answer = None
    /\ snapshot = None
    /\ raised = None
    /\ NoExport
    /\ remoteSchema \in DeleteSchemas
    /\ remoteObjects \in 0..MaxRemoteObjects
    /\ (remoteSchema = EmptySchema => remoteObjects = 0)
    /\ remote0 = <<remoteSchema, remoteObjects>>
    /\ calls = <<>>
    /\ fail_on_error = FALSE
    /\ data = EmptyDict
    /\ schema = None
    /\ data_objects = <<>>
    /\ data_references = <<>>
    /\ vi = 1
    /\ oi = 1
    /\ ri = 1
    /\ objects_batch = <<>>
    /\ reference_batch = <<>>
    /\ submitted = <<>>
    /\ printed = <<>>

importVars == <<fail_on_error, data, schema, data_objects, data_references, vi, oi, ri,
                objects_batch, reference_batch, submitted, printed>>

\* delete_all_data with force set: straight to _delete_all
ForceDelete ==
    /\ pc = "delete_all_data"
    /\ force
    /\ pc' = "_delete_all"
    /\ UNCHANGED <<exitStatus, remoteSchema, remoteObjects, remote0, calls, force, answer,
                   snapshot, raised, importVars, exportVars>>

\* variant: the test of the answer is inverted
AskConfirmationInverted ==
    /\ pc = "delete_all_data"
    /\ ~force
    /\ \E yes \in BOOLEAN :
           /\ answer' = IF yes THEN "yes" ELSE "no"
           /\ IF yes THEN pc' = "done" /\ exitStatus' = 0
              ELSE pc' = "_delete_all" /\ UNCHANGED exitStatus
    /\ UNCHANGED <<remoteSchema, remoteObjects, remote0, calls, force, snapshot, raised,
                   importVars, exportVars>>

\* delete_all_data without force: is_question_answer_yes decides
AskConfirmation ==
    /\ pc = "delete_all_data"
    /\ ~force
    /\ \E yes \in BOOLEAN :
           /\ answer' = IF yes THEN "yes" ELSE "no"
           /\ IF ~yes THEN pc' = "done" /\ exitStatus' = 0
              ELSE pc' = "_delete_all" /\ UNCHANGED exitStatus
    /\ UNCHANGED <<remoteSchema, remoteObjects, remote0, calls, force, snapshot, raised,
                   importVars, exportVars>>

\* variant: the exception of a failed call is caught and ignored
RaiseSwallowed == pc' = "return" /\ UNCHANGED exitStatus

\* a failed call of the schema service raises, and the uncaught exception
\* ends the process with status 1
Raise == pc' = "exited" /\ exitStatus' = 1

\* the call of _delete_all that is being made, by the position in it
CallAt == IF pc = "_delete_all" THEN "get" ELSE IF pc = "delete" THEN "delete_all" ELSE pc

\* _delete_all: schema = client.schema.get()
SchemaGet ==
    /\ pc = "_delete_all"
    /\ calls' = Append(calls, "get")
    /\ \E ok \in BOOLEAN :
           IF ok THEN /\ snapshot' = remoteSchema
                      /\ pc' = "delete"
                      /\ UNCHANGED <<exitStatus, raised>>
           ELSE Raise /\ raised' = CallAt /\ UNCHANGED snapshot
    /\ UNCHANGED <<remoteSchema, remoteObjects, remote0, force, answer, importVars, exportVars>>

\* _delete_all: client.schema.delete_all(); the classes go with their data;
\* a failed call leaves the classes it had not reached
SchemaDeleteAll ==
    /\ pc = "delete"
    /\ calls' = Append(calls, "delete_all")
    /\ \E ok \in BOOLEAN :
           IF ok
           THEN /\ remoteSchema' = EmptySchema
                /\ remoteObjects' = 0
                /\ pc' = "create"
                /\ UNCHANGED <<exitStatus, raised>>
           ELSE /\ Raise
                /\ raised' = CallAt
                /\ \E k \in 1..(Len(remoteSchema.classes) + 1), n \in 0..remoteObjects :
                       /\ k <= Len(remoteSchema.classes) \/ remoteSchema = EmptySchema
                       /\ remoteSchema' = [classes |-> SubSeq(remoteSchema.classes, k,
                                                              Len(remoteSchema.classes))]
                       /\ remoteObjects' = n
    /\ UNCHANGED <<remote0, force, answer, snapshot, importVars, exportVars>>

\* variant: the schema is read again after delete_all and that is recreated
SchemaCreateFromRemote ==
    /\ pc = "create"
    /\ calls' = Append(calls, "create")
    /\ pc' = "return"
    /\ UNCHANGED <<exitStatus, remoteSchema, remoteObjects, remote0, force, answer, snapshot,
                   raised, importVars, exportVars>>

\* _delete_all: client.schema.create(schema); a failed call leaves the
\* classes it had created
SchemaCreate ==
    /\ pc = "create"
    /\ calls' = Append(calls, "create")
    /\ \E ok \in BOOLEAN :
           IF ok THEN /\ remoteSchema' = snapshot
                      /\ pc' = "return"
                      /\ UNCHANGED <<exitStatus, raised>>
           ELSE /\ Raise
                /\ raised' = CallAt
                /\ \E k \in 0..Len(snapshot.classes) :
                       /\ k < Len(snapshot.classes) \/ snapshot = EmptySchema
                       /\ remoteSchema' = [classes |-> SubSeq(snapshot.classes, 1, k)]
    /\ UNCHANGED <<remoteObjects, remote0, force, answer, snapshot, importVars, exportVars>>

\* _delete_all returned: sys.exit(0) with force, the end of the command without
DeleteReturn ==
    /\ pc = "return"
    /\ pc' = "done"
    /\ exitStatus' = 0
    /\ UNCHANGED <<remoteSchema, remoteObjects, remote0, calls, force, answer, snapshot,
                   raised, importVars, exportVars>>

NextDelete ==
    ForceDelete \/ AskConfirmation \/ SchemaGet \/ SchemaDeleteAll \/ SchemaCreate
        \/ DeleteReturn

\* a bulk delete: data delete [--force]
SpecDelete == InitDelete /\ [][NextDelete]_vars

(***************************************************************************)
(* What the input document and the remote schema say, read off the         *)
(* documents themselves                                                    *)
(***************************************************************************)
(* Export: export_class, _get_batch_with_cursor                            *)
(***************************************************************************)
\* the class_name argument of export_class
ExportClassName == "WebPage"

\* remote schemas of an export: the exported class with one or two properties
ExportSchemas ==
    {[classes |-> <<[class |-> ExportClassName, properties |-> ps]>>] : ps \in
        {<<[name |-> "title", dataType |-> <<"text">>]>>,
         <<[name |-> "title", dataType |-> <<"text">>],
           [name |-> "url", dataType |-> <<"text">>]>>}}

\* ids of the objects of the class, in the order of the query service
IdNames == <<"id1", "id2", "id3", "id4", "id5", "id6">>

\* the i-th object of the class as the service holds it
StoredObject(i) ==
    [id |-> IdNames[i], vector |-> <<i>>,
     properties |-> [p \in {"title", "url"} |-> <<p, i>>]]

\* client.schema.get(class_name)
ClassSchema(schemaDoc, name) ==
    LET cls == SchemaClasses(schemaDoc)
    IN cls[CHOOSE i \in DOMAIN cls : cls[i].class = name]

\* the query service: of the objects strictly after the one with id after
\* (all of them when after is None), the first limit ones, in its order
ObjectsAfter(after, limit) ==
    LET at == IF after = None THEN 0
              ELSE CHOOSE i \in DOMAIN entities : entities[i].id = after
        to == IF at + limit < Len(entities) THEN at + limit ELSE Len(entities)
    IN SubSeq(entities, at + 1, to)

\* _get_batch_with_cursor: next_results["data"]["Get"][class_name], each
\* entity with the properties asked for and _additional
_get_batch_with_cursor(props, vectors, limit, after) ==
    LET page == ObjectsAfter(after, limit)
    IN [i \in DOMAIN page |->
           [p \in Range(props) |-> page[i].properties[p]]
           @@ ("_additional" :> IF vectors THEN [id |-> page[i].id, vector |-> page[i].vector]
                               ELSE [id |-> page[i].id])]

\* formatted_entity of export_class
FormattedEntity(entity, props, vectors) ==
    LET base == [class |-> ExportClassName, id |-> entity["_additional"].id,
                 properties |-> [p \in Range(props) |-> entity[p]]]
    IN IF vectors THEN base @@ [vector |-> entity["_additional"].vector] ELSE base

InitExport ==
    /\ pc = "export_class"
    /\ exitStatus = None
    /\ batch_size \in 1..MaxExportBatch
    /\ include_vectors \in BOOLEAN
    /\ remoteSchema \in ExportSchemas
    /\ remoteObjects \in 0..MaxExportObjects
    /\ entities = [i \in 1..remoteObjects |-> StoredObject(i)]
    /\ class_properties = <<>>
    /\ cursor = None
    /\ results = <<>>
    /\ queries = <<>>
    /\ remote0 = <<remoteSchema, remoteObjects>>
    /\ calls = <<>>
    /\ force = FALSE
    /\ answer = None
    /\ snapshot = None
    /\ raised = None
    /\ fail_on_error = FALSE
    /\ data = EmptyDict
    /\ schema = None
    /\ data_objects = <<>>
    /\ data_references = <<>>
    /\ vi = 1
    /\ oi = 1
    /\ ri = 1
    /\ objects_batch = <<>>
    /\ reference_batch = <<>>
    /\ submitted = <<>>
    /\ printed = <<>>

\* export_class up to its loop: cursor = None, the property names of the
\* class read from its schema, results = []
ExportStart ==
    /\ pc = "export_class"
    /\ calls' = Append(calls, "get")
    /\ class_properties' = PropertyNames(ClassSchema(remoteSchema, ExportClassName).properties)
    /\ cursor' = None
    /\ results' = <<>>
    /\ pc' = "page"
    /\ UNCHANGED <<exitStatus, remoteSchema, remoteObjects, remote0, force, answer, snapshot,
                   raised, batch_size, include_vectors, entities, queries, importVars>>

\* variant: the cursor is set to the id of the first object of the page
FetchPageCursorAtFirst ==
    /\ pc = "page"
    /\ queries' = Append(queries, cursor)
    /\ LET page == _get_batch_with_cursor(class_properties, include_vectors, batch_size,
                                          cursor)
       IN IF Len(page) = 0
          THEN pc' = "returned" /\ UNCHANGED <<results, cursor>>
          ELSE /\ results' = results \o [i \in DOMAIN page |->
                                FormattedEntity(page[i], class_properties, include_vectors)]
               /\ cursor' = page[1]["_additional"].id
               /\ UNCHANGED pc
    /\ UNCHANGED <<exitStatus, remoteSchema, remoteObjects, remote0, calls, force, answer,
                   snapshot, raised, batch_size, include_vectors, entities,
                   class_properties, importVars>>

\* one pass of the loop of export_class: a page is asked for; an empty page
\* ends the loop and results is returned, any other is formatted, appended,
\* and the cursor is set to the id of its last object
FetchPage ==
    /\ pc = "page"
    /\ queries' = Append(queries, cursor)
    /\ LET page == _get_batch_with_cursor(class_properties, include_vectors, batch_size,
                                          cursor)
       IN IF Len(page) = 0
          THEN pc' = "returned" /\ UNCHANGED <<results, cursor>>
          ELSE /\ results' = results \o [i \in DOMAIN page |->
                                FormattedEntity(page[i], class_properties, include_vectors)]
               /\ cursor' = page[Len(page)]["_additional"].id
               /\ UNCHANGED pc
    /\ UNCHANGED <<exitStatus, remoteSchema, remoteObjects, remote0, calls, force, answer,
                   snapshot, raised, batch_size, include_vectors, entities,
                   class_properties, importVars>>

NextExport == ExportStart \/ FetchPage

\* export_class on one class; the loop runs as long as it can
SpecExport == InitExport /\ [][NextExport]_vars /\ WF_vars(NextExport)

(***************************************************************************)
\* the class descriptors of the remote schema with the name of obj's class
DescriptorsOf(obj) == {d \in Range(SchemaClasses(remoteSchema)) : d.class = obj.class}

ClassUnknown(obj) == DescriptorsOf(obj) = {}

\* property p of obj is listed for its class with a primitive / other data type
ListedPrimitive(obj, p) ==
    \E d \in DescriptorsOf(obj) : \E q \in Range(d.properties) :
        q.name = p.name /\ q.dataType[1] \in PrimitiveTypes

ListedReference(obj, p) ==
    \E d \in DescriptorsOf(obj) : \E q \in Range(d.properties) :
        q.name = p.name /\ q.dataType[1] \notin PrimitiveTypes

PropertyUnknown(obj, p) == ~ListedPrimitive(obj, p) /\ ~ListedReference(obj, p)

ObjInvalid(obj) ==
    ClassUnknown(obj) \/ \E p \in Range(obj.properties) : PropertyUnknown(obj, p)

DocInvalid == \E obj \in Range(DocClasses(data)) : ObjInvalid(obj)

\* a result entry carries a non-null error
EntryHasError(entry) ==
    /\ "result" \in DOMAIN entry
    /\ "errors" \in DOMAIN entry.result
    /\ entry.result.errors # None

BatchHasError(sub) == \E e \in Range(sub.results) : EntryHasError(e)

\* the records of one kind received by the write service, in order
SubmittedRecords(kind) ==
    LET subs == SelectSeq(submitted, LAMBDA sub : sub.kind = kind)
    IN Flatten([i \in DOMAIN subs |-> subs[i].batch])

\* something was handed to the batcher or sent, or the final flush was called
WriteTraffic ==
    \/ oi > 1 \/ ri > 1
    \/ objects_batch # <<>> \/ reference_batch # <<>>
    \/ submitted # <<>>
    \/ pc = "done"

Ceil(a, b) == (a + b - 1) \div b

(***************************************************************************)
(* Claims                                                                  *)
(***************************************************************************)
\* C1: nothing is handed to the batcher, flushed or submitted before every
\* object of the input document has been validated, and a document holding
\* an object with an unknown class or property, at any position, never
\* causes any write traffic.
C1_ValidationBeforeWrites ==
    /\ WriteTraffic =>
           /\ vi = Len(DocClasses(data)) + 1
           /\ Len(data_objects) = Len(DocClasses(data))
    /\ DocInvalid => ~WriteTraffic

\* a run stopped at an invalid second object, after a valid first one
C1_Witness ==
    /\ pc = "exited"
    /\ vi = 2
    /\ Len(data_objects) = 1
    /\ ObjInvalid(DocClasses(data)[2])
    /\ ~WriteTraffic

\* C2: with fail-on-error, a submitted batch whose results hold an error is
\* the last batch ever submitted, and the process has ended with status 1.
C2_FailFast ==
    fail_on_error =>
        \A i \in DOMAIN submitted :
            BatchHasError(submitted[i]) =>
                /\ i = Len(submitted)
                /\ pc = "exited"
                /\ exitStatus = 1

\* an error in batch 2 ended the run while records were still to be sent
C2_Witness ==
    /\ fail_on_error
    /\ pc = "exited"
    /\ Len(submitted) = 2
    /\ BatchHasError(submitted[2])
    /\ ri <= Len(data_references)

\* C3: without fail-on-error no batch error ends the run, and when the final
\* flush has returned every object record and every reference record that
\* validation produced has been submitted exactly once.
C3_EverythingSubmittedOnce ==
    ~fail_on_error =>
        /\ submitted # <<>> => pc # "exited"
        /\ pc = "done" =>
               /\ \A r \in Range(data_objects) \cup Range(SubmittedRecords("objects")) :
                      Count(SubmittedRecords("objects"), r) = Count(data_objects, r)
               /\ \A r \in Range(data_references) \cup Range(SubmittedRecords("references")) :
                      Count(SubmittedRecords("references"), r) = Count(data_references, r)

\* a finished run of three batches or more whose first batch reported an error
C3_Witness ==
    /\ ~fail_on_error
    /\ pc = "done"
    /\ Len(submitted) >= 3
    /\ BatchHasError(submitted[1])
    /\ data_references # <<>>

ValidatingNext == pc = "validate" /\ vi <= Len(DocClasses(data))

NextObj == DocClasses(data)[vi]

\* C5: validating an object whose class is absent from the schema ends the
\* run with status 1 and adds no object record and no reference record.
C5_UnknownClass ==
    [][(ValidatingNext /\ ClassUnknown(NextObj)) =>
           /\ pc' = "exited"
           /\ exitStatus' = 1
           /\ data_objects' = data_objects
           /\ data_references' = data_references
           /\ submitted' = <<>>]_vars

\* a run stopped at a second object of unknown class that has properties
C5_Witness ==
    /\ pc = "exited"
    /\ exitStatus = 1
    /\ vi = 2
    /\ ClassUnknown(DocClasses(data)[2])
    /\ DocClasses(data)[2].properties # <<>>
    /\ Len(data_objects) = 1
    /\ Len(data_references) = 1

\* C6: validating an object of a known class with a property in neither
\* list of its class ends the run with status 1 and the object is not added
\* to the object records, whatever its other properties and their order.
C6_UnknownProperty ==
    [][(/\ ValidatingNext
        /\ ~ClassUnknown(NextObj)
        /\ \E p \in Range(NextObj.properties) : PropertyUnknown(NextObj, p)) =>
           /\ pc' = "exited"
           /\ exitStatus' = 1
           /\ data_objects' = data_objects
           /\ submitted' = <<>>]_vars

\* a run stopped at an object whose unknown property follows a reference property
C6_Witness ==
    /\ pc = "exited"
    /\ exitStatus = 1
    /\ vi <= Len(DocClasses(data))
    /\ LET obj == DocClasses(data)[vi]
       IN /\ ~ClassUnknown(obj)
          /\ Len(obj.properties) = 2
          /\ ListedReference(obj, obj.properties[1])
          /\ obj.properties[1].val # <<>>
          /\ PropertyUnknown(obj, obj.properties[2])
    /\ data_objects = <<>>

RECURSIVE DescriptorsUnder(_, _)
\* the sum of the k_i: the descriptors of the reference properties of obj
DescriptorsUnder(obj, props) ==
    IF props = <<>> THEN 0
    ELSE (IF ListedReference(obj, Head(props)) THEN Len(Head(props).val) ELSE 0)
             + DescriptorsUnder(obj, Tail(props))

\* C7: validating an object of a known class whose properties are all known
\* appends exactly one object record, whose mapping holds exactly the
\* primitive properties with their values, and for every reference property
\* as many reference records as it has descriptors, each carrying the
\* object's id and class and the property's name.
C7_SplitCounts ==
    [][(ValidatingNext /\ ~ObjInvalid(NextObj)) =>
           LET obj     == NextObj
               prims   == {p \in Range(obj.properties) : ListedPrimitive(obj, p)}
               refs    == {p \in Range(obj.properties) : ListedReference(obj, p)}
               rec     == data_objects'[Len(data_objects')]
               newRefs == SubSeq(data_references', Len(data_references) + 1,
                                 Len(data_references'))
           IN /\ data_objects' = Append(data_objects, rec)
              /\ rec.class_name = obj.class
              /\ rec.uuid = obj.id
              /\ DOMAIN rec.data_object = {p.name : p \in prims}
              /\ Cardinality(DOMAIN rec.data_object) = Cardinality(prims)
              /\ \A p \in prims : rec.data_object[p.name] = p.val
              /\ data_references' = data_references \o newRefs
              /\ Len(newRefs) = DescriptorsUnder(obj, obj.properties)
              /\ \A r \in Range(newRefs) :
                     /\ r.from_object_uuid = obj.id
                     /\ r.from_object_class_name = obj.class
                     /\ \E p \in refs : r.from_property_name = p.name
              /\ \A p \in refs :
                     Cardinality({j \in DOMAIN newRefs :
                                     newRefs[j].from_property_name = p.name}) = Len(p.val)]_vars

\* an object with one primitive property and a reference property of two
\* descriptors has been validated
C7_Witness ==
    /\ pc = "validate"
    /\ vi = 2
    /\ Len(DocClasses(data)[1].properties) = 2
    /\ Len(data_objects) = 1
    /\ DOMAIN data_objects[1].data_object = {"title"}
    /\ Len(data_references) = 2

\* name is a member of the list of names
InList(names, name) == \E k \in DOMAIN names : names[k] = name

\* the class descriptors of the schema document that dissect_schema keeps:
\* the last one of each class name
KeptDescriptors ==
    LET cls == SchemaClasses(remoteSchema)
    IN {cls[i] : i \in {k \in DOMAIN cls :
                            \A j \in DOMAIN cls : j > k => cls[j].class # cls[k].class}}

C10_DeleteGated ==
    /\ InList(calls, "delete_all") => force \/ answer = "yes"
    /\ (~force /\ answer # "yes") =>
           /\ calls = <<>>
           /\ <<remoteSchema, remoteObjects>> = remote0

\* a delete without force that was answered no, with data on the remote side
C10_Witness ==
    /\ pc = "done"
    /\ exitStatus = 0
    /\ ~force
    /\ answer = "no"
    /\ remoteObjects > 0

(***************************************************************************)
(* C11: a bulk delete that goes ahead calls the schema service in the      *)
(* order get, delete_all, create, each at most once and each exactly once  *)
(* when no call fails; the snapshot is the schema as it was before         *)
(* delete_all; after a run whose three calls succeeded the remote schema   *)
(* is the one before the run and the service holds no data objects.        *)
(***************************************************************************)
DeleteCalls == <<"get", "delete_all", "create">>

C11_SnapshotDeleteRecreate ==
    /\ \E k \in 0..Len(DeleteCalls) : calls = SubSeq(DeleteCalls, 1, k)
    /\ InList(calls, "delete_all") => snapshot = remote0[1]
    /\ (pc \in {"return", "done"} /\ (force \/ answer = "yes")) =>
           /\ calls = DeleteCalls
           /\ remoteSchema = remote0[1]
           /\ remoteObjects = 0

C11_Witness ==
    /\ pc = "done"
    /\ calls = DeleteCalls
    /\ remote0[1] # EmptySchema
    /\ remote0[2] > 0
    /\ remoteSchema = snapshot

(***************************************************************************)
(* C13: when delete_all succeeded and create fails, the bulk delete ends   *)
(* with status 1, never with status 0, with or without force, and create   *)
(* is called once only.                                                    *)
(***************************************************************************)
C13_SchemaLostIsFatal ==
    raised = "create" =>
        /\ pc = "exited"
        /\ exitStatus = 1
        /\ calls = DeleteCalls
        /\ Count(calls, "create") = 1

C13_Witness ==
    /\ raised = "create"
    /\ ~force
    /\ answer = "yes"
    /\ remote0[1] # EmptySchema
    /\ remoteSchema = EmptySchema
    /\ exitStatus = 1
(***************************************************************************)
(* C12: an input document that is not a mapping with the key classes fails *)
(* the import: the run does not end with status 0 and no record is sent.   *)
(***************************************************************************)
C12_MalformedInputFails ==
    "classes" \notin DOMAIN data =>
        /\ pc # "done"
        /\ submitted = <<>>
(***************************************************************************)
(* C14: the split keeps the order of the input: the object records are in  *)
(* the order of the objects in the file, and the reference records are     *)
(* ordered by the position of their source object, then by the position of *)
(* the reference property in the object, then by the position of the       *)
(* descriptor in the property's list.                                      *)
(***************************************************************************)
\* the objects validated so far, of a document whose objects are all valid
ValidatedCount == IF pc = "validate" THEN vi - 1 ELSE Len(DocClasses(data))

\* positions <<object, property, descriptor>> of the reference descriptors of
\* the first m objects, in lexicographic order
DescriptorPositions(m) ==
    Flatten([i \in 1..m |->
        LET obj == DocClasses(data)[i]
        IN Flatten([j \in 1..Len(obj.properties) |->
               IF ListedPrimitive(obj, obj.properties[j]) THEN <<>>
               ELSE [k \in 1..Len(obj.properties[j].val) |-> <<i, j, k>>]])])

\* the part of a beacon after its last separator
AfterLastSeparator(beacon) ==
    LET at == {i \in 1..Len(beacon) : beacon[i] = "/"}
    IN IF at = {} THEN beacon
       ELSE SubSeq(beacon, (CHOOSE i \in at : \A j \in at : j <= i) + 1, Len(beacon))

C14_OrderPreserved ==
    (pc # "load" /\ ~DocInvalid) =>
        LET m   == ValidatedCount
            pos == DescriptorPositions(m)
        IN /\ Len(data_objects) = m
           /\ \A i \in 1..m :
                  /\ data_objects[i].uuid = DocClasses(data)[i].id
                  /\ data_objects[i].class_name = DocClasses(data)[i].class
           /\ Len(data_references) = Len(pos)
           /\ \A t \in 1..Len(pos) :
                  LET obj  == DocClasses(data)[pos[t][1]]
                      prop == obj.properties[pos[t][2]]
                  IN /\ data_references[t].from_object_uuid = obj.id
                     /\ data_references[t].from_property_name = prop.name
                     /\ data_references[t].to_object_uuid =
                            AfterLastSeparator(BeaconOf(prop.val[pos[t][3]]))

\* two objects with one reference record each, under different properties,
\* all split
C14_Witness ==
    /\ pc = "import"
    /\ ~DocInvalid
    /\ Len(data_objects) = 2
    /\ Len(data_references) = 2
    /\ data_references[1].from_object_uuid = DocClasses(data)[1].id
    /\ data_references[2].from_object_uuid = DocClasses(data)[2].id
    /\ data_references[1].from_object_uuid # data_references[2].from_object_uuid
    /\ data_references[1].from_property_name # data_references[2].from_property_name
(***************************************************************************)
(* C15: no submission to the write service holds both an object record and *)
(* a reference record: a submission of kind objects holds object records   *)
(* only, one of kind references holds reference records only.              *)
(***************************************************************************)
IsObjectRecord(r) == "class_name" \in DOMAIN r /\ "from_object_uuid" \notin DOMAIN r

IsReferenceRecord(r) == "from_object_uuid" \in DOMAIN r /\ "class_name" \notin DOMAIN r

ErrorsOf(sub) ==
    LET withError == SelectSeq(sub.results, EntryHasError)
    IN [i \in DOMAIN withError |-> withError[i].result.errors]

\* the non-null errors answered by the write service so far, in order
ErrorsAnswered == Flatten([i \in DOMAIN submitted |-> ErrorsOf(submitted[i])])

C16_CallbackReports ==
    /\ ~fail_on_error =>
           /\ printed = ErrorsAnswered
           /\ pc = "exited" => DocInvalid
    /\ fail_on_error =>
           /\ printed = IF ErrorsAnswered = <<>> THEN <<>> ELSE <<ErrorsAnswered[1]>>
           /\ ErrorsAnswered # <<>> =>
                  /\ pc = "exited"
                  /\ BatchHasError(submitted[Len(submitted)])
                  /\ \A i \in 1..(Len(submitted) - 1) : ~BatchHasError(submitted[i])
           /\ (ErrorsAnswered = <<>> /\ pc = "exited") => DocInvalid

\* a submission answered with two errors, under fail_on_error
C16_Witness ==
    /\ fail_on_error
    /\ Len(submitted) >= 1
    /\ Len(ErrorsOf(submitted[Len(submitted)])) = 2
    /\ printed = <<ErrorNames[1]>>
    /\ pc = "exited"
(***************************************************************************)
(* C17: every reference descriptor yields exactly one reference record,    *)
(* whose target id is the last segment of the beacon split on "/": it      *)
(* holds no separator and the beacon is the target id or ends with a       *)
(* separator followed by it; a beacon without separator is accepted and is *)
(* the target id as a whole; weaviate://localhost/Doc/y1 gives y1.         *)
(***************************************************************************)
\* the list of descriptors under the reference property of the one object
DissectedList == DocClasses(data)[1].properties[1].val

\* t is what follows the last separator of beacon b
IsLastSegment(t, b) ==
    /\ \A i \in DOMAIN t : t[i] # "/"
    /\ \/ b = t
       \/ \E k \in DOMAIN b : b[k] = "/" /\ t = SubSeq(b, k + 1, Len(b))

C17_TargetIsLastSegment ==
    /\ pc # "exited"
    /\ vi = 2 =>
           /\ Len(data_references) = Len(DissectedList)
           /\ \A k \in DOMAIN DissectedList :
                  LET d == DissectedList[k]
                      t == data_references[k].to_object_uuid
                  IN "beacon" \in DOMAIN d =>
                         /\ IsLastSegment(t, d.beacon)
                         /\ (\A i \in DOMAIN d.beacon : d.beacon[i] # "/") => t = d.beacon
                         /\ d.beacon = Beacon1 => t = <<"y1">>

\* dissected: a beacon with separators and letters after the last one, and a
\* beacon without separator
C17_Witness ==
    /\ vi = 2
    /\ Len(DissectedList) = 2
    /\ DissectedList[1] = [beacon |-> <<"a", "/", "a">>]
    /\ DissectedList[2] = [beacon |-> <<"a", "a">>]
    /\ data_references[1].to_object_uuid = <<"a">>
    /\ data_references[2].to_object_uuid = <<"a", "a">>
(***************************************************************************)
(* C18: the schema definition is built once, from the one schema fetched,  *)
(* before the first object is validated; no step of validation, upload or  *)
(* flush changes it, so after any number of validated objects, a failing   *)
(* one included, it is the value derived from the remote schema.           *)
(***************************************************************************)
C18_SchemaDefinitionFrozen ==
    /\ [](pc = "load" => (schema = None /\ vi = 1 /\ data_objects = <<>>))
    /\ [](pc # "load" => (schema = dissect_schema(remoteSchema) /\ calls = <<"get">>))
    /\ [][pc # "load" => schema' = schema]_vars

\* one object validated, the next one failed
C18_Witness ==
    /\ pc = "exited"
    /\ vi = 2
    /\ Len(data_objects) = 1
    /\ submitted = <<>>
    /\ schema = dissect_schema(remoteSchema)
    /\ DOMAIN schema = {"Doc"}
(***************************************************************************)
(* C19: every object record is handed to the batcher before any reference  *)
(* record: no reference is added while an object is still to be added, no  *)
(* objects request follows a references request, and the run ends as done  *)
(* only after the flush that follows the last reference.                   *)
(***************************************************************************)
C19_ObjectsBeforeReferences ==
    /\ ri > 1 => oi = Len(data_objects) + 1
    /\ reference_batch # <<>> => oi = Len(data_objects) + 1
    /\ \A i, j \in DOMAIN submitted :
           (i < j /\ submitted[i].kind = "references") => submitted[j].kind = "references"
    /\ pc = "done" =>
           /\ oi = Len(data_objects) + 1
           /\ ri = Len(data_references) + 1
           /\ objects_batch = <<>>
           /\ reference_batch = <<>>

\* two objects added, the first of two references added, the second waiting
C19_Witness ==
    /\ pc = "import"
    /\ Len(data_objects) = 2
    /\ oi = 3
    /\ ri = 2
    /\ Len(data_references) = 2
(***************************************************************************)
(* C20: with n objects in the class and page size S >= 1, export_class     *)
(* comes to its return; it asks for ceil(n/S) + 1 pages, the last of which *)
(* is the first empty one; the cursor of each request after the first is   *)
(* the id of the last object of the page before; and the result holds      *)
(* every object exactly once, in the order of the service.                 *)
(***************************************************************************)
\* the number of objects handed out by the first k pages
HandedOut(k) == IF k * batch_size < Len(entities) THEN k * batch_size ELSE Len(entities)

C20_PaginationSafe ==
    /\ Len(queries) <= Ceil(Len(entities), batch_size) + 1
    /\ pc = "returned" <=> Len(queries) = Ceil(Len(entities), batch_size) + 1
    /\ \A k \in DOMAIN queries :
           queries[k] = IF k = 1 THEN None ELSE entities[HandedOut(k - 1)].id
    /\ Len(results) = HandedOut(Len(queries))
    /\ \A i \in DOMAIN results :
           /\ results[i].id = entities[i].id
           /\ results[i].class = ExportClassName
           /\ DOMAIN results[i].properties = Range(class_properties)
           /\ \A p \in DOMAIN results[i].properties :
                  results[i].properties[p] = entities[i].properties[p]
           /\ ("vector" \in DOMAIN results[i]) <=> include_vectors
    /\ pc = "returned" => Len(results) = Len(entities)

C20_PaginationTerminates == []C20_PaginationSafe /\ <>(pc = "returned")

\* returned after a full page, a shorter one and the empty one
C20_Witness ==
    /\ pc = "returned"
    /\ batch_size = 2
    /\ Len(entities) = 3
    /\ Len(results) = 3
    /\ queries = <<None, IdNames[2], IdNames[3]>>
    /\ include_vectors
====
